---- MODULE Spec2Model ----
(***************************************************************************)
(* Cycle-cancelling minimum-cost flow: the Bellman-Ford engine of          *)
(* munchen.py (CycleCancellingAlgorithm) and the Karp minimum-mean-cycle   *)
(* engine of cycle_cancelling_MM.py (cycle_cancelling), run on small       *)
(* capacitated, weighted directed graphs.                                  *)
(*                                                                         *)
(* A graph is the sequence of its edges in the order G.edges() yields      *)
(* them.  The graphs of Init are built the way build_graph_funcs.py builds *)
(* them (add_edges_from of a list sorted by tail, nodes numbered in order  *)
(* of first appearance), so the insertion order, the order of G.edges(),   *)
(* of G.out_edges(n) and of G.in_edges(n) are all the order of the         *)
(* sequence.                                                               *)
(***************************************************************************)
EXTENDS Integers, Sequences, FiniteSets, TLC

VARIABLES
    nodes,           \* list(G.nodes())
    G,               \* G.edges(data=True): records u, v, capacity, weight, flow
    s,               \* source
    t,               \* target
    pc,              \* position of munchen's run()
    cycle,           \* self.cycle
    cycle_min_flow,  \* self.cycle_min_flow
    no_cycle_found,  \* self.no_cycle_found
    ret,             \* what run() returned: <<flow_dict, min_cost>> once returned
    cancelled,       \* history: the adjustments of _adjust_cycle that changed the flow
    passes,          \* history: the calls of _find_negative_cycle, counted up to PassLimit + 1
    pcMM,            \* position of cycle_cancelling_MM.cycle_cancelling
    flow_dict,       \* its flow_dict, one entry per edge of G
    retMM,           \* what it returned: <<flow_dict, min_cost>>
    cancelledMM,     \* history: the calls of augment_cycle that returned
    karp_G,          \* the graph handed to find_minimum_mean_negative_cycle called alone
    karp_out         \* what that call did: KarpNotCalled before it, then KarpOutcome

vars == <<nodes, G, s, t, pc, cycle, cycle_min_flow, no_cycle_found, ret, cancelled, passes,
          pcMM, flow_dict, retMM, cancelledMM, karp_G, karp_out>>

bfVars == <<pc, cycle, cycle_min_flow, no_cycle_found, ret, cancelled, passes>>
mmVars == <<pcMM, flow_dict, retMM, cancelledMM>>
karpVars == <<karp_G, karp_out>>

(***************************************************************************)
(* Bounds of the model.                                                    *)
(***************************************************************************)
\* The capacities of a graph sum to at most MaxTotalCapacity.
MaxTotalCapacity == 6

\* The capacities of a graph with edges left out sum to at most SparseCapacity.
SparseCapacity == 4

\* The weights of a graph handed to the Karp detector alone are integers of
\* absolute value at most KarpMaxWeight.
KarpMaxWeight == 2

\* The cancellations of a run of the strongly-connected-components variant
\* that are followed: at most ConnMaxCancellations.
ConnMaxCancellations == 3

\* The capacities of a graph handed to validation sum to at most
\* ValidationCapacity (before a defect is put in).
ValidationCapacity == 4

\* The weights an edge may have.
Weights == {0, 1}

\* The edges of the graphs explored, in add_edges_from order: a diamond
\* 0 -> {1, 2} -> 3 with the anti-parallel pair 1 -> 2, 2 -> 1.
Topology == << <<0, 1>>, <<0, 2>>, <<1, 2>>, <<1, 3>>, <<2, 1>>, <<2, 3>> >>

\* The sinks explored; the source is node 0.
Sinks == {0, 3}

(***************************************************************************)
(* Values shared by both engines.                                          *)
(***************************************************************************)
\* math.inf: larger than every distance or capacity of a bounded graph.
Inf == 1000000

\* x + w in float arithmetic with math.inf: inf + w = inf for finite w.
AddInf(x, w) == IF x = Inf THEN Inf ELSE x + w

Min(a, b) == IF a < b THEN a ELSE b

\* None, for a predecessor entry.
None == [node |-> -1, edge |-> 0, residual_capacity |-> 0, direction |-> 0]

\* list.index(x): the first position of x in the list q.
IndexOf(q, x) == CHOOSE i \in 1..Len(q) : q[i] = x /\ \A j \in 1..(i - 1) : q[j] # x

InList(q, x) == \E i \in 1..Len(q) : q[i] = x

SetOf(q) == {q[i] : i \in 1..Len(q)}

(***************************************************************************)
(* munchen.py, step 1: _get_max_flow, one BFS round at a time.             *)
(***************************************************************************)
\* predecessor[self.s] as the BFS sets it before the search.
SourceMark == [node |-> -1, edge |-> 0, residual_capacity |-> Inf, direction |-> 0]

\* The loop over G.out_edges(node): forward residual edges with capacity > flow.
RECURSIVE ScanOutEdges(_, _, _, _)
ScanOutEdges(g, i, node, st) ==
    IF i > Len(g) THEN st
    ELSE IF g[i].u = node /\ g[i].capacity > g[i].flow /\ st.pred[g[i].v] = None
         THEN ScanOutEdges(g, i + 1, node,
                  [pred  |-> [st.pred EXCEPT ![g[i].v] =
                                 [node |-> node, edge |-> i,
                                  residual_capacity |-> g[i].capacity - g[i].flow,
                                  direction |-> 1]],
                   queue |-> Append(st.queue, g[i].v)])
         ELSE ScanOutEdges(g, i + 1, node, st)

\* The loop over G.in_edges(node): backward residual edges with flow > 0.
RECURSIVE ScanInEdges(_, _, _, _)
ScanInEdges(g, i, node, st) ==
    IF i > Len(g) THEN st
    ELSE IF g[i].v = node /\ g[i].flow > 0 /\ st.pred[g[i].u] = None
         THEN ScanInEdges(g, i + 1, node,
                  [pred  |-> [st.pred EXCEPT ![g[i].u] =
                                 [node |-> node, edge |-> i,
                                  residual_capacity |-> g[i].flow,
                                  direction |-> -1]],
                   queue |-> Append(st.queue, g[i].u)])
         ELSE ScanInEdges(g, i + 1, node, st)

\* while predecessor[self.t] is None and queue: pop the head, scan its edges.
RECURSIVE BFSLoop(_, _, _)
BFSLoop(g, snk, st) ==
    IF st.pred[snk] # None \/ st.queue = <<>> THEN st.pred
    ELSE LET node  == Head(st.queue)
             rest  == [st EXCEPT !.queue = Tail(st.queue)]
             after == ScanInEdges(g, 1, node, ScanOutEdges(g, 1, node, rest))
         IN  BFSLoop(g, snk, after)

\* One BFS of the residual graph from src: the predecessor map it leaves.
BFS(g, nds, src, snk) ==
    BFSLoop(g, snk,
            [pred  |-> [n \in nds |-> IF n = src THEN SourceMark ELSE None],
             queue |-> <<src>>])

\* The walk back from the sink: the pred_info records, sink end first.
RECURSIVE ReconstructPath(_, _, _)
ReconstructPath(pred, current, src) ==
    IF current = src THEN <<>>
    ELSE <<pred[current]>> \o ReconstructPath(pred, pred[current].node, src)

\* Augmentation with the minimum left out: the residual capacity of the step
\* into the sink alone.
AugmentationLastStep(path) ==
    IF path = <<>> THEN Inf ELSE Head(path).residual_capacity

\* augmentation = min(augmentation, residual_capacity) over the path, from inf.
RECURSIVE Augmentation(_)
Augmentation(path) ==
    IF path = <<>> THEN Inf
    ELSE Min(Augmentation(Tail(path)), Head(path).residual_capacity)

\* ApplySteps with the direction dropped: flow += amount on every step.
RECURSIVE ApplyStepsForward(_, _, _)
ApplyStepsForward(g, steps, amount) ==
    IF steps = <<>> THEN g
    ELSE ApplyStepsForward([g EXCEPT ![Head(steps).edge].flow = @ + amount],
                           Tail(steps), amount)

\* flow += direction * amount on the edge of every step, in order.
RECURSIVE ApplySteps(_, _, _)
ApplySteps(g, steps, amount) ==
    IF steps = <<>> THEN g
    ELSE ApplySteps([g EXCEPT ![Head(steps).edge].flow = @ + Head(steps).direction * amount],
                    Tail(steps), amount)

\* One round of the while True loop that finds a path and applies it.
GetMaxFlowAugment ==
    /\ pc = "get_max_flow"
    /\ LET pred == BFS(G, SetOf(nodes), s, t)
           path == ReconstructPath(pred, t, s)
       IN  /\ pred[t] # None
           /\ G' = ApplySteps(G, path, Augmentation(path))
    /\ UNCHANGED <<nodes, s, t, pc, cycle, cycle_min_flow, no_cycle_found, ret, cancelled, passes>>
    /\ UNCHANGED mmVars
    /\ UNCHANGED karpVars

\* The round in which the BFS does not reach the sink: break, on to _main_loop.
GetMaxFlowExit ==
    /\ pc = "get_max_flow"
    /\ BFS(G, SetOf(nodes), s, t)[t] = None
    /\ pc' = "main_loop"
    /\ UNCHANGED <<nodes, G, s, t, cycle, cycle_min_flow, no_cycle_found, ret, cancelled, passes>>
    /\ UNCHANGED mmVars
    /\ UNCHANGED karpVars

(***************************************************************************)
(* munchen.py, step 2: _main_loop, _find_negative_cycle, _adjust_cycle.    *)
(***************************************************************************)
\* None, for a predecessor entry of the Bellman-Ford search.
NoPred == [prev_node |-> -1, edge |-> 0, direction |-> 0]

\* One sweep over G.edges(data=True): the forward test, then the backward test.
RECURSIVE RelaxEdges(_, _, _)
RelaxEdges(g, i, st) ==
    IF i > Len(g) THEN st
    ELSE LET u   == g[i].u
             v   == g[i].v
             w   == g[i].weight
             fwd == g[i].capacity > g[i].flow /\ AddInf(st.dist[u], w) < st.dist[v]
             st1 == IF fwd
                    THEN [dist    |-> [st.dist EXCEPT ![v] = AddInf(st.dist[u], w)],
                          pred    |-> [st.pred EXCEPT ![v] =
                                          [prev_node |-> u, edge |-> i, direction |-> 1]],
                          updated |-> TRUE]
                    ELSE st
             bwd == g[i].flow > 0 /\ AddInf(st1.dist[v], -w) < st1.dist[u]
             st2 == IF bwd
                    THEN [dist    |-> [st1.dist EXCEPT ![u] = AddInf(st1.dist[v], -w)],
                          pred    |-> [st1.pred EXCEPT ![u] =
                                          [prev_node |-> v, edge |-> i, direction |-> -1]],
                          updated |-> TRUE]
                    ELSE st1
         IN  RelaxEdges(g, i + 1, st2)

\* RelaxPasses stopping after its first sweep, whatever the sweep updated.
RelaxPassesSingleSweep(g, left, st) ==
    IF left = 0 THEN st ELSE RelaxEdges(g, 1, [st EXCEPT !.updated = FALSE])

\* for _ in range(num_nodes): sweep; break when a sweep updates nothing.
RECURSIVE RelaxPasses(_, _, _)
RelaxPasses(g, left, st) ==
    IF left = 0 THEN st
    ELSE LET after == RelaxEdges(g, 1, [st EXCEPT !.updated = FALSE])
         IN  IF after.updated THEN RelaxPasses(g, left - 1, after) ELSE after

\* Distances and predecessors after the relaxation, seeded at the target.
BellmanFord(g, nds, snk) ==
    RelaxPasses(g, Len(nds),
                [dist    |-> [n \in SetOf(nds) |-> IF n = snk THEN 0 ELSE Inf],
                 pred    |-> [n \in SetOf(nds) |-> NoPred],
                 updated |-> FALSE])

\* HasCycle with the backward arcs left out of the final test.
HasCycleForwardOnly(g, dist) ==
    \E i \in 1..Len(g) :
        g[i].capacity > g[i].flow /\ AddInf(dist[g[i].u], g[i].weight) < dist[g[i].v]

\* HasCycle with <= for <: an edge that is exactly tight counts as relaxable.
HasCycleOrTight(g, dist) ==
    \E i \in 1..Len(g) :
        \/ g[i].capacity > g[i].flow /\ AddInf(dist[g[i].u], g[i].weight) <= dist[g[i].v]
        \/ g[i].flow > 0 /\ AddInf(dist[g[i].v], -g[i].weight) <= dist[g[i].u]

\* has_cycle: some residual edge can still be relaxed.
HasCycle(g, dist) ==
    \E i \in 1..Len(g) :
        \/ g[i].capacity > g[i].flow /\ AddInf(dist[g[i].u], g[i].weight) < dist[g[i].v]
        \/ g[i].flow > 0 /\ AddInf(dist[g[i].v], -g[i].weight) < dist[g[i].u]

\* The walk along the predecessors from the target until a node repeats
\* (the cycle, prefix cut off) or a node has no predecessor (what was
\* collected so far).
RECURSIVE WalkCycle(_, _, _)
WalkCycle(pred, cycle_node_stack, cyc) ==
    LET last_node == cycle_node_stack[Len(cycle_node_stack)]
        pred_info == pred[last_node]
        new_node  == pred_info.prev_node
        grown     == Append(cyc, pred_info)
    IN  IF pred_info = NoPred THEN cyc
        ELSE IF InList(cycle_node_stack, new_node)
             THEN SubSeq(grown, IndexOf(cycle_node_stack, new_node), Len(grown))
             ELSE WalkCycle(pred, Append(cycle_node_stack, new_node), grown)

\* The residual capacity of one step of a cycle.
StepResidual(g, step) ==
    IF step.direction = 1 THEN g[step.edge].capacity - g[step.edge].flow
    ELSE g[step.edge].flow

\* CycleMinFlow with the minimum left out: the residual capacity of the
\* first step alone.
CycleMinFlowFirstStep(g, cyc) ==
    IF cyc = <<>> THEN Inf ELSE StepResidual(g, Head(cyc))

\* cycle_min_flow = min(cycle_min_flow, residual_cap) over the cycle, from inf.
RECURSIVE CycleMinFlow(_, _)
CycleMinFlow(g, cyc) ==
    IF cyc = <<>> THEN Inf
    ELSE Min(CycleMinFlow(g, Tail(cyc)), StepResidual(g, Head(cyc)))

\* What _find_negative_cycle leaves in no_cycle_found, cycle, cycle_min_flow.
FindNegativeCycleResult(g, nds, snk) ==
    LET bf  == BellmanFord(g, nds, snk)
        cyc == WalkCycle(bf.pred, <<snk>>, <<>>)
    IN  IF HasCycle(g, bf.dist)
        THEN [no_cycle_found |-> FALSE, cycle |-> cyc,
              cycle_min_flow |-> CycleMinFlow(g, cyc)]
        ELSE [no_cycle_found |-> TRUE, cycle |-> <<>>, cycle_min_flow |-> 0]

\* The flow assignments within the capacities of g: as many as this.  The
\* detector's result depends on the flow alone, so a run that calls it more
\* often has called it twice on the same flow and repeats for ever.
RECURSIVE PassLimit(_)
PassLimit(g) ==
    IF g = <<>> THEN 1 ELSE (Head(g).capacity + 1) * PassLimit(Tail(g))

\* FindNegativeCycle with the detector pushing cycle_min_flow around the
\* cycle it found, before _adjust_cycle does.
FindNegativeCycleApplying ==
    /\ pc = "main_loop"
    /\ LET r == FindNegativeCycleResult(G, nodes, t)
       IN  /\ no_cycle_found' = r.no_cycle_found
           /\ cycle' = r.cycle
           /\ cycle_min_flow' = r.cycle_min_flow
           /\ pc' = IF r.no_cycle_found THEN "loop_exit" ELSE "adjust_cycle"
           /\ G' = IF r.cycle = <<>> \/ r.cycle_min_flow <= 0 THEN G
                   ELSE ApplySteps(G, r.cycle, r.cycle_min_flow)
    /\ passes' = IF passes > PassLimit(G) THEN passes ELSE passes + 1
    /\ UNCHANGED <<nodes, s, t, ret, cancelled>>
    /\ UNCHANGED mmVars
    /\ UNCHANGED karpVars

\* One pass of the while True of _main_loop up to the test of no_cycle_found.
FindNegativeCycle ==
    /\ pc = "main_loop"
    /\ LET r == FindNegativeCycleResult(G, nodes, t)
       IN  /\ no_cycle_found' = r.no_cycle_found
           /\ cycle' = r.cycle
           /\ cycle_min_flow' = r.cycle_min_flow
           /\ pc' = IF r.no_cycle_found THEN "loop_exit" ELSE "adjust_cycle"
    /\ passes' = IF passes > PassLimit(G) THEN passes ELSE passes + 1
    /\ UNCHANGED <<nodes, G, s, t, ret, cancelled>>
    /\ UNCHANGED mmVars
    /\ UNCHANGED karpVars

\* AdjustCycle with run() starting over at _get_max_flow after a cancellation.
AdjustCycleRestarting ==
    /\ pc = "adjust_cycle"
    /\ IF cycle = <<>> \/ cycle_min_flow <= 0
       THEN UNCHANGED <<G, cycle, cycle_min_flow, cancelled>> /\ pc' = "main_loop"
       ELSE /\ G' = ApplySteps(G, cycle, cycle_min_flow)
            /\ cycle' = <<>>
            /\ cycle_min_flow' = 0
            /\ cancelled' = cancelled + 1
            /\ pc' = "get_max_flow"
    /\ UNCHANGED <<nodes, s, t, no_cycle_found, ret, passes>>
    /\ UNCHANGED mmVars
    /\ UNCHANGED karpVars

\* _adjust_cycle, then back to the head of the loop.
AdjustCycle ==
    /\ pc = "adjust_cycle"
    /\ IF cycle = <<>> \/ cycle_min_flow <= 0
       THEN UNCHANGED <<G, cycle, cycle_min_flow, cancelled>>
       ELSE /\ G' = ApplySteps(G, cycle, cycle_min_flow)
            /\ cycle' = <<>>
            /\ cycle_min_flow' = 0
            /\ cancelled' = cancelled + 1
    /\ pc' = "main_loop"
    /\ UNCHANGED <<nodes, s, t, no_cycle_found, ret, passes>>
    /\ UNCHANGED mmVars
    /\ UNCHANGED karpVars

\* _compute_total_cost: the sum of flow * weight over the edges.
RECURSIVE TotalCost(_)
TotalCost(g) ==
    IF g = <<>> THEN 0
    ELSE Head(g).flow * Head(g).weight + TotalCost(Tail(g))

\* _build_flow_dict: the flow of every edge, by edge.
BuildFlowDict(g) == [i \in 1..Len(g) |-> g[i].flow]

\* The tail of run(): build the flow dict, compute the cost, return both.
Return ==
    /\ pc = "loop_exit"
    /\ ret' = <<BuildFlowDict(G), TotalCost(G)>>
    /\ pc' = "returned"
    /\ UNCHANGED <<nodes, G, s, t, cycle, cycle_min_flow, no_cycle_found, cancelled, passes>>
    /\ UNCHANGED mmVars
    /\ UNCHANGED karpVars

(***************************************************************************)
(* cycle_cancelling_MM.py: the residual graph R, a networkx DiGraph.       *)
(* R.nodes and R.arcs keep insertion order; R.edges() lists, node by node  *)
(* in R.nodes order, the arcs leaving the node in R.arcs order.            *)
(***************************************************************************)
EmptyDiGraph == [nodes |-> <<>>, arcs |-> <<>>]

HasEdge(R, u, v) == \E i \in 1..Len(R.arcs) : R.arcs[i].u = u /\ R.arcs[i].v = v

\* R[u][v]
ArcOf(R, u, v) ==
    R.arcs[CHOOSE i \in 1..Len(R.arcs) : R.arcs[i].u = u /\ R.arcs[i].v = v]

\* R.add_edge(u, v, weight=w, capacity=c, type=ty): a new arc goes last, an
\* arc already there keeps its place and takes the new attributes.
AddEdge(R, u, v, w, c, ty) ==
    LET arc == [u |-> u, v |-> v, weight |-> w, capacity |-> c, type |-> ty]
        n1  == IF InList(R.nodes, u) THEN R.nodes ELSE Append(R.nodes, u)
        n2  == IF InList(n1, v) THEN n1 ELSE Append(n1, v)
    IN  IF HasEdge(R, u, v)
        THEN [R EXCEPT !.arcs = [i \in 1..Len(R.arcs) |->
                  IF R.arcs[i].u = u /\ R.arcs[i].v = v THEN arc ELSE R.arcs[i]]]
        ELSE [nodes |-> n2, arcs |-> Append(R.arcs, arc)]

\* R.remove_edge(u, v): the nodes stay.
RemoveEdge(R, u, v) ==
    LET Keep(a) == ~(a.u = u /\ a.v = v)
    IN  [R EXCEPT !.arcs = SelectSeq(R.arcs, Keep)]

\* R.edges(data=True)
RECURSIVE EdgesFrom(_, _)
EdgesFrom(R, i) ==
    IF i > Len(R.nodes) THEN <<>>
    ELSE LET Leaves(a) == a.u = R.nodes[i]
         IN  SelectSeq(R.arcs, Leaves) \o EdgesFrom(R, i + 1)

REdges(R) == EdgesFrom(R, 1)

\* ResidualStep with f <= cap for f < cap: a saturated edge keeps a forward
\* arc of capacity 0.
ResidualStepSaturated(R, e, f) ==
    LET skip == f <= e.capacity /\ HasEdge(R, e.u, e.v)
                    /\ ArcOf(R, e.u, e.v).type = "bwd"
        R1   == IF f <= e.capacity /\ ~HasEdge(R, e.u, e.v)
                THEN AddEdge(R, e.u, e.v, e.weight, e.capacity - f, "fwd")
                ELSE R
        R2   == IF HasEdge(R1, e.v, e.u) /\ ArcOf(R1, e.v, e.u).type = "fwd"
                THEN RemoveEdge(R1, e.v, e.u)
                ELSE R1
    IN  IF skip THEN R
        ELSE IF f > 0 THEN AddEdge(R2, e.v, e.u, -e.weight, f, "bwd")
        ELSE R1

\* The body of build_residual's loop for the edge g[i] carrying flow f.
ResidualStep(R, e, f) ==
    LET skip == f < e.capacity /\ HasEdge(R, e.u, e.v)
                    /\ ArcOf(R, e.u, e.v).type = "bwd"
        R1   == IF f < e.capacity /\ ~HasEdge(R, e.u, e.v)
                THEN AddEdge(R, e.u, e.v, e.weight, e.capacity - f, "fwd")
                ELSE R
        R2   == IF HasEdge(R1, e.v, e.u) /\ ArcOf(R1, e.v, e.u).type = "fwd"
                THEN RemoveEdge(R1, e.v, e.u)
                ELSE R1
    IN  IF skip THEN R
        ELSE IF f > 0 THEN AddEdge(R2, e.v, e.u, -e.weight, f, "bwd")
        ELSE R1

RECURSIVE BuildResidualFrom(_, _, _, _)
BuildResidualFrom(g, flow, i, R) ==
    IF i > Len(g) THEN R
    ELSE BuildResidualFrom(g, flow, i + 1, ResidualStep(R, g[i], flow[i]))

\* build_residual(G, flow)
BuildResidual(g, flow) == BuildResidualFrom(g, flow, 1, EmptyDiGraph)

(***************************************************************************)
(* cycle_cancelling_MM.py: find_minimum_mean_negative_cycle on a DiGraph   *)
(* (the multigraph preprocessing does not apply to build_residual's R).    *)
(***************************************************************************)
\* None, for a parent entry (node names are >= 0).
NoParent == -1

\* The sweep over G.edges(data=True) that fills dp[k] and parent[k] from dp[k-1].
RECURSIVE FillLayer(_, _, _)
FillLayer(prev, arcs, layer) ==
    IF arcs = <<>> THEN layer
    ELSE LET a    == Head(arcs)
             cand == AddInf(prev[a.u], a.weight)
         IN  IF cand < layer.dp[a.v]
             THEN FillLayer(prev, Tail(arcs),
                            [dp     |-> [layer.dp EXCEPT ![a.v] = cand],
                             parent |-> [layer.parent EXCEPT ![a.v] = a.u]])
             ELSE FillLayer(prev, Tail(arcs), layer)

\* dp and parent, layers 0..n, as a sequence: layer k is element k + 1.
RECURSIVE DPLayers(_, _, _, _)
DPLayers(nds, arcs, k, acc) ==
    IF k > Len(nds) THEN acc
    ELSE DPLayers(nds, arcs, k + 1,
             Append(acc, FillLayer(acc[k].dp, arcs,
                                   [dp     |-> [v \in SetOf(nds) |-> Inf],
                                    parent |-> [v \in SetOf(nds) |-> NoParent]])))

DPTable(R) ==
    DPLayers(R.nodes, REdges(R), 1,
             << [dp     |-> [v \in SetOf(R.nodes) |-> 0],
                 parent |-> [v \in SetOf(R.nodes) |-> NoParent]] >>)

\* A quotient num / den with den > 0, and the float comparisons on quotients:
\* exact for the small integers of the model.
FracLess(a, b) == a[1] * b[2] < b[1] * a[2]

\* max over k < n with dp[k][v] finite of (dp[n][v] - dp[k][v]) / (n - k), from -inf.
RECURSIVE MaxAvg(_, _, _, _, _)
MaxAvg(dp, n, v, k, max_avg) ==
    IF k >= n THEN max_avg
    ELSE LET avg == <<dp[n + 1].dp[v] - dp[k + 1].dp[v], n - k>>
         IN  IF dp[k + 1].dp[v] # Inf /\ FracLess(max_avg, avg)
             THEN MaxAvg(dp, n, v, k + 1, avg)
             ELSE MaxAvg(dp, n, v, k + 1, max_avg)

\* KarpMin keeping the max_avg of the last node with a walk of n arcs, not the
\* least one.
RECURSIVE KarpMinLastNode(_, _, _, _)
KarpMinLastNode(dp, nds, i, st) ==
    IF i > Len(nds) THEN st
    ELSE IF dp[Len(nds) + 1].dp[nds[i]] = Inf THEN KarpMinLastNode(dp, nds, i + 1, st)
    ELSE KarpMinLastNode(dp, nds, i + 1,
                         [mu     |-> MaxAvg(dp, Len(nds), nds[i], 0, <<-Inf, 1>>),
                          v_star |-> nds[i]])

\* The loop over the nodes of Karp's min-max formula: mu and v_star.
RECURSIVE KarpMin(_, _, _, _)
KarpMin(dp, nds, i, st) ==
    IF i > Len(nds) THEN st
    ELSE IF dp[Len(nds) + 1].dp[nds[i]] = Inf THEN KarpMin(dp, nds, i + 1, st)
    ELSE LET max_avg == MaxAvg(dp, Len(nds), nds[i], 0, <<-Inf, 1>>)
         IN  IF FracLess(max_avg, st.mu)
             THEN KarpMin(dp, nds, i + 1, [mu |-> max_avg, v_star |-> nds[i]])
             ELSE KarpMin(dp, nds, i + 1, st)

\* NotBelowEpsilon with the comparison made strict: a cycle of mean 0 counts
\* as negative.
NotBelowEpsilonStrict(mu) == mu[1] > 0

\* mu >= -1e-11: a negative mu of the model is at most -1/n, so this is mu >= 0.
NotBelowEpsilon(mu) == mu[1] >= 0

\* The walk back from layer k at curr, in the order visited (before the reverse).
RECURSIVE TraceBack(_, _, _)
TraceBack(dp, k, curr) ==
    IF k = 0 \/ dp[k + 1].parent[curr] = NoParent THEN <<curr>>
    ELSE <<curr>> \o TraceBack(dp, k - 1, dp[k + 1].parent[curr])

Reverse(q) == [i \in 1..Len(q) |-> q[Len(q) + 1 - i]]

\* The first position whose node was seen before, 0 when no node repeats.
FirstRepeat(path) ==
    LET reps == {i \in 1..Len(path) : \E j \in 1..(i - 1) : path[j] = path[i]}
    IN  IF reps = {} THEN 0 ELSE CHOOSE i \in reps : \A j \in reps : i <= j

\* find_minimum_mean_negative_cycle(R): the cycle as a node list closed by
\* its first node, or <<>> when it raises NetworkXError.
FindMinimumMeanNegativeCycle(R) ==
    IF Len(R.nodes) = 0 THEN <<>>
    ELSE LET dp == DPTable(R)
             km == KarpMin(dp, R.nodes, 1, [mu |-> <<Inf, 1>>, v_star |-> NoParent])
         IN  IF km.v_star = NoParent \/ NotBelowEpsilon(km.mu) THEN <<>>
             ELSE LET path == Reverse(TraceBack(dp, Len(R.nodes), km.v_star))
                      i    == FirstRepeat(path)
                  IN  IF i = 0 THEN <<>>
                      ELSE SubSeq(path, IndexOf(path, path[i]), i)

\* karp_out before the call.
KarpNotCalled == [raised |-> "not called", cycle |-> <<>>, mu |-> <<0, 1>>]

\* KarpOutcome with the first repeated node looked for from the far end of
\* the path: the segment between the last two occurrences of the last
\* repeated node.
KarpOutcomeLastRepeat(R) ==
    IF Len(R.nodes) = 0 THEN [raised |-> "Empty graph", cycle |-> <<>>, mu |-> <<Inf, 1>>]
    ELSE LET dp == DPTable(R)
             km == KarpMin(dp, R.nodes, 1, [mu |-> <<Inf, 1>>, v_star |-> NoParent])
         IN  IF km.v_star = NoParent \/ NotBelowEpsilon(km.mu)
             THEN [raised |-> "No negative mean cycle found", cycle |-> <<>>, mu |-> km.mu]
             ELSE LET path == Reverse(TraceBack(dp, Len(R.nodes), km.v_star))
                      reps == {i \in 1..Len(path) : \E j \in 1..(i - 1) : path[j] = path[i]}
                  IN  IF reps = {}
                      THEN [raised |-> "Failed to reconstruct cycle", cycle |-> <<>>,
                            mu |-> km.mu]
                      ELSE LET i == CHOOSE x \in reps : \A y \in reps : y <= x
                           IN  [raised |-> "", mu |-> km.mu,
                                cycle |-> SubSeq(path, IndexOf(path, path[i]), i)]

\* find_minimum_mean_negative_cycle(R) with its exceptions told apart: the
\* message of the NetworkXError raised ("" when it returns), the cycle
\* returned and the value of mu.
KarpOutcome(R) ==
    IF Len(R.nodes) = 0 THEN [raised |-> "Empty graph", cycle |-> <<>>, mu |-> <<Inf, 1>>]
    ELSE LET dp == DPTable(R)
             km == KarpMin(dp, R.nodes, 1, [mu |-> <<Inf, 1>>, v_star |-> NoParent])
         IN  IF km.v_star = NoParent \/ NotBelowEpsilon(km.mu)
             THEN [raised |-> "No negative mean cycle found", cycle |-> <<>>, mu |-> km.mu]
             ELSE LET path == Reverse(TraceBack(dp, Len(R.nodes), km.v_star))
                      i    == FirstRepeat(path)
                  IN  IF i = 0
                      THEN [raised |-> "Failed to reconstruct cycle", cycle |-> <<>>,
                            mu |-> km.mu]
                      ELSE [raised |-> "", mu |-> km.mu,
                            cycle |-> SubSeq(path, IndexOf(path, path[i]), i)]

(***************************************************************************)
(* cycle_cancelling_MM.py: cycle_cancelling.                               *)
(***************************************************************************)
\* The net flow a flow assignment sends out of node n.
RECURSIVE NetOut(_, _, _)
NetOut(g, flow, n) ==
    IF g = <<>> THEN 0
    ELSE (IF Head(g).u = n THEN Head(flow) ELSE 0)
         - (IF Head(g).v = n THEN Head(flow) ELSE 0)
         + NetOut(Tail(g), Tail(flow), n)

\* The flow assignments within the capacities of the first i edges.
RECURSIVE WithinCapacity(_, _)
WithinCapacity(g, i) ==
    IF i = 0 THEN {<<>>}
    ELSE {Append(f, x) : f \in WithinCapacity(g, i - 1), x \in 0..g[i].capacity}

\* The feasible flows: within capacity, conserved at every node but src and snk.
FeasibleFlows(g, nds, src, snk) ==
    {f \in WithinCapacity(g, Len(g)) :
        \A n \in SetOf(nds) \ {src, snk} : NetOut(g, f, n) = 0}

MaxOf(S) == CHOOSE x \in S : \A y \in S : y <= x
MinOf(S) == CHOOSE x \in S : \A y \in S : x <= y

\* The value of a maximum flow from src to snk.
MaxFlowValue(g, nds, src, snk) ==
    MaxOf({NetOut(g, f, src) : f \in FeasibleFlows(g, nds, src, snk)})

\* nx.maximum_flow(G_cap, s, t): some maximum flow of the capacities.
MaximumFlows(g, nds, src, snk) ==
    LET feas == FeasibleFlows(g, nds, src, snk)
        best == MaxOf({NetOut(g, f, src) : f \in feas})
    IN  {f \in feas : NetOut(g, f, src) = best}

\* Bottleneck with the minimum left out: the capacity of the first arc alone.
BottleneckFirstArc(R, cyc, i) ==
    IF i >= Len(cyc) THEN Inf ELSE ArcOf(R, cyc[i], cyc[i + 1]).capacity

\* bottleneck: the least R[u][v]["capacity"] along the cycle, from inf.
RECURSIVE Bottleneck(_, _, _)
Bottleneck(R, cyc, i) ==
    IF i >= Len(cyc) THEN Inf
    ELSE Min(ArcOf(R, cyc[i], cyc[i + 1]).capacity, Bottleneck(R, cyc, i + 1))

\* The index of the edge (u, v) of G, 0 when G has no such edge.
EdgeIndex(g, u, v) ==
    IF \E i \in 1..Len(g) : g[i].u = u /\ g[i].v = v
    THEN CHOOSE i \in 1..Len(g) : g[i].u = u /\ g[i].v = v
    ELSE 0

\* augment_cycle that stops after the first arc of the cycle.
AugmentCycleFirstArc(g, R, flow, cyc, bottleneck, i) ==
    IF i >= Len(cyc) THEN [flow |-> flow, raised |-> FALSE]
    ELSE LET u == cyc[i]
             v == cyc[i + 1]
         IN  IF EdgeIndex(g, u, v) # 0 /\ ArcOf(R, u, v).type = "fwd"
             THEN [flow |-> [flow EXCEPT ![EdgeIndex(g, u, v)] = @ + bottleneck],
                   raised |-> FALSE]
             ELSE [flow |-> [flow EXCEPT ![EdgeIndex(g, v, u)] = @ - bottleneck],
                   raised |-> FALSE]

\* augment_cycle(flow, cycle, bottleneck): the flow after the loop, and
\* whether it raised "Cycle edge not found in original graph".
RECURSIVE AugmentCycle(_, _, _, _, _, _)
AugmentCycle(g, R, flow, cyc, bottleneck, i) ==
    IF i >= Len(cyc) THEN [flow |-> flow, raised |-> FALSE]
    ELSE LET u  == cyc[i]
             v  == cyc[i + 1]
             ty == IF HasEdge(R, u, v) THEN ArcOf(R, u, v).type ELSE "none"
         IN  IF EdgeIndex(g, u, v) # 0 /\ ty = "fwd"
             THEN AugmentCycle(g, R, [flow EXCEPT ![EdgeIndex(g, u, v)] = @ + bottleneck],
                               cyc, bottleneck, i + 1)
             ELSE IF EdgeIndex(g, v, u) # 0 /\ ty = "bwd"
             THEN AugmentCycle(g, R, [flow EXCEPT ![EdgeIndex(g, v, u)] = @ - bottleneck],
                               cyc, bottleneck, i + 1)
             ELSE [flow |-> flow, raised |-> TRUE]

\* min_cost: flow * weight summed over the entries with positive flow.
RECURSIVE MinCost(_, _)
MinCost(g, flow) ==
    IF g = <<>> THEN 0
    ELSE (IF Head(flow) > 0 THEN Head(flow) * Head(g).weight ELSE 0)
         + MinCost(Tail(g), Tail(flow))

\* Validation passed; the initial maximum flow, zero where unassigned.
MMMaxFlow ==
    /\ pcMM = "max_flow"
    /\ flow_dict' \in MaximumFlows(G, nodes, s, t)
    /\ pcMM' = "main_loop"
    /\ UNCHANGED <<nodes, G, s, t, retMM, cancelledMM>>
    /\ UNCHANGED bfVars
    /\ UNCHANGED karpVars

\* One pass of the main loop: build R, run the detector; without a cycle
\* break, compute min_cost and return; with one, the bottleneck, its fault
\* check and augment_cycle.
MMLoopPass ==
    /\ pcMM = "main_loop"
    /\ LET R   == BuildResidual(G, flow_dict)
           cyc == FindMinimumMeanNegativeCycle(R)
           b   == Bottleneck(R, cyc, 1)
           aug == AugmentCycle(G, R, flow_dict, cyc, b, 1)
       IN  IF cyc = <<>>
           THEN /\ retMM' = <<flow_dict, MinCost(G, flow_dict)>>
                /\ pcMM' = "returned"
                /\ UNCHANGED <<flow_dict, cancelledMM>>
           ELSE /\ IF b <= 0 \/ aug.raised
                   THEN pcMM' = "fault" /\ UNCHANGED <<flow_dict, cancelledMM>>
                   ELSE /\ pcMM' = "main_loop"
                        /\ flow_dict' = aug.flow
                        /\ cancelledMM' = cancelledMM + 1
                /\ retMM' = retMM
    /\ UNCHANGED <<nodes, G, s, t>>
    /\ UNCHANGED bfVars
    /\ UNCHANGED karpVars

(***************************************************************************)
(* Initial states and specifications.                                      *)
(***************************************************************************)
\* The graph with the edges of Topology, capacities c and weights w, as the
\* constructor leaves it: flow 0 on every edge.
GraphOf(c, w) ==
    [i \in 1..Len(Topology) |->
        [u |-> Topology[i][1], v |-> Topology[i][2],
         capacity |-> c[i], weight |-> w[i], flow |-> 0]]

\* list(G.nodes()) of a graph built by add_edges_from: first appearance order.
RECURSIVE NodesOf(_, _)
NodesOf(g, acc) ==
    IF g = <<>> THEN acc
    ELSE LET a == IF InList(acc, Head(g).u) THEN acc ELSE Append(acc, Head(g).u)
             b == IF InList(a, Head(g).v) THEN a ELSE Append(a, Head(g).v)
         IN  NodesOf(Tail(g), b)

\* The capacity assignments of n edges that sum to at most budget.
RECURSIVE Capacities(_, _)
Capacities(n, budget) ==
    IF n = 0 THEN {<<>>}
    ELSE UNION {{Append(c, x) : c \in Capacities(n - 1, budget - x)} : x \in 0..budget}

\* An edge of capacity 0 carries no flow and adds no residual arc: its weight
\* is left 0.
WeightsFor(c) ==
    {w \in [1..Len(Topology) -> Weights] : \A i \in 1..Len(Topology) : c[i] = 0 => w[i] = 0}

\* The input of a run: a graph of the family, source 0 and a sink, with the
\* engines munchen (bf) and cycle_cancelling_MM (mm) called on it or not.
\* munchen's constructor has left flow 0 on every edge, an empty cycle and
\* no_cycle_found False; cycle_cancelling_MM's validation has passed.
Start(sinks, bf, mm) ==
    /\ \E c \in Capacities(Len(Topology), MaxTotalCapacity) :
           \E w \in WeightsFor(c) : G = GraphOf(c, w)
    /\ nodes = NodesOf(G, <<>>)
    /\ s = 0
    /\ t \in sinks
    /\ pc = IF bf THEN "get_max_flow" ELSE "idle"
    /\ cycle = <<>>
    /\ cycle_min_flow = 0
    /\ no_cycle_found = FALSE
    /\ ret = <<>>
    /\ cancelled = 0
    /\ passes = 0
    /\ pcMM = IF mm THEN "max_flow" ELSE "idle"
    /\ flow_dict = <<>>
    /\ retMM = <<>>
    /\ cancelledMM = 0
    /\ karp_G = EmptyDiGraph
    /\ karp_out = KarpNotCalled

\* munchen.cycle_cancelling alone, on any source and sink the constructor accepts.
InitBF == Start(Sinks, TRUE, FALSE)

NextBF ==
    \/ GetMaxFlowAugment
    \/ GetMaxFlowExit
    \/ FindNegativeCycle
    \/ AdjustCycle
    \/ Return

SpecBF == InitBF /\ [][NextBF]_vars

\* cycle_cancelling_MM.cycle_cancelling alone, source # target.
InitMM == Start(Sinks \ {0}, FALSE, TRUE)

NextMM ==
    \/ MMMaxFlow
    \/ MMLoopPass

SpecMM == InitMM /\ [][NextMM]_vars

\* Both engines on the same input: munchen first, then cycle_cancelling_MM on
\* a copy of the graph.
Init == Start(Sinks \ {0}, TRUE, TRUE)

Next ==
    \/ GetMaxFlowAugment
    \/ GetMaxFlowExit
    \/ FindNegativeCycle
    \/ AdjustCycle
    \/ Return
    \/ pc = "returned" /\ MMMaxFlow
    \/ pc = "returned" /\ MMLoopPass

Spec == Init /\ [][Next]_vars

\* build_and_draw_graph2: the edges handed to add_edges_from, in order, as
\* <<u, v, capacity, weight>>.
Graph2Edges ==
    << <<0, 1, 2, 1>>, <<0, 2, 4, 1>>, <<1, 2, 3, 1>>, <<1, 3, 1, 4>>, <<2, 3, 6, 1>> >>

\* The graph a build function returns, as the constructor leaves it.
BuiltGraph(edges) ==
    [i \in 1..Len(edges) |->
        [u |-> edges[i][1], v |-> edges[i][2], capacity |-> edges[i][3],
         weight |-> edges[i][4], flow |-> 0]]

\* The graphs with the edges and weights of g and capacities up to those of g.
LoweredCapacities(g) ==
    {[i \in 1..Len(g) |-> [g[i] EXCEPT !.capacity = c[i]]] :
        c \in {x \in [1..Len(g) -> 0..MaxOf({g[i].capacity : i \in 1..Len(g)})] :
                  \A i \in 1..Len(g) : x[i] <= g[i].capacity}}

\* munchen.cycle_cancelling on graph 2 of the driver's list, from 0 to 3, and
\* on the same graph with capacities lowered.
InitScenario ==
    /\ G \in LoweredCapacities(BuiltGraph(Graph2Edges))
    /\ nodes = NodesOf(G, <<>>)
    /\ s = 0
    /\ t = 3
    /\ pc = "get_max_flow"
    /\ cycle = <<>>
    /\ cycle_min_flow = 0
    /\ no_cycle_found = FALSE
    /\ ret = <<>>
    /\ cancelled = 0
    /\ passes = 0
    /\ pcMM = "idle"
    /\ flow_dict = <<>>
    /\ retMM = <<>>
    /\ cancelledMM = 0
    /\ karp_G = EmptyDiGraph
    /\ karp_out = KarpNotCalled

SpecScenario == InitScenario /\ [][NextBF]_vars

\* The graph g without the edges whose index is not in keep.
RECURSIVE KeepEdges(_, _, _)
KeepEdges(g, keep, i) ==
    IF i > Len(g) THEN <<>>
    ELSE (IF i \in keep THEN <<g[i]>> ELSE <<>>) \o KeepEdges(g, keep, i + 1)

\* munchen.cycle_cancelling from 0 to 3 on graphs with some edges of Topology
\* left out; the constructor raises unless source and target are nodes.
InitSparse ==
    /\ \E c \in Capacities(Len(Topology), SparseCapacity) :
           \E w \in WeightsFor(c) :
               \E keep \in SUBSET (1..Len(Topology)) :
                   G = KeepEdges(GraphOf(c, w), keep, 1)
    /\ nodes = NodesOf(G, <<>>)
    /\ s = 0
    /\ t = 3
    /\ InList(nodes, s)
    /\ InList(nodes, t)
    /\ pc = "get_max_flow"
    /\ cycle = <<>>
    /\ cycle_min_flow = 0
    /\ no_cycle_found = FALSE
    /\ ret = <<>>
    /\ cancelled = 0
    /\ passes = 0
    /\ pcMM = "idle"
    /\ flow_dict = <<>>
    /\ retMM = <<>>
    /\ cancelledMM = 0
    /\ karp_G = EmptyDiGraph
    /\ karp_out = KarpNotCalled

SpecSparse == InitSparse /\ [][NextBF]_vars

(***************************************************************************)
(* Validation of the input: cycle_cancelling_MM.cycle_cancelling and the   *)
(* constructor of munchen.CycleCancellingAlgorithm.  An edge carries in    *)
(* attrs the attributes its data dict holds; capacity and weight are what  *)
(* data.get(attr, 0) reads.                                                *)
(***************************************************************************)
\* The first check of an edge that fails, "" when none does, in the order of
\* the loop body.
EdgeError(e) ==
    IF "capacity" \notin e.attrs THEN "missing capacity attribute"
    ELSE IF e.capacity < 0 THEN "negative capacity"
    ELSE IF "weight" \notin e.attrs THEN "missing weight attribute"
    ELSE IF e.weight < 0 THEN "negative weight"
    ELSE ""

\* EdgesError with the test of the sign of the weight left out.
EdgesErrorWeightSignUnchecked(g, i) ==
    IF \E j \in i..Len(g) : "capacity" \notin g[j].attrs \/ g[j].capacity < 0
                            \/ "weight" \notin g[j].attrs
    THEN "invalid edge" ELSE ""

\* for u, v, data in G.edges(data=True): the first error raised.
RECURSIVE EdgesError(_, _)
EdgesError(g, i) ==
    IF i > Len(g) THEN ""
    ELSE IF EdgeError(g[i]) # "" THEN EdgeError(g[i])
    ELSE EdgesError(g, i + 1)

\* The ValueError the validation of cycle_cancelling raises, "" when it passes.
ValidationError(g, nds, src, snk) ==
    IF ~InList(nds, src) THEN "Source node does not exist in graph."
    ELSE IF ~InList(nds, snk) THEN "Target node does not exist in graph."
    ELSE EdgesError(g, 1)

\* The validation at the head of cycle_cancelling: raise, or go on to the
\* maximum flow.
MMValidate ==
    /\ pcMM = "validate"
    /\ pcMM' = IF ValidationError(G, nodes, s, t) = "" THEN "max_flow" ELSE "raised"
    /\ UNCHANGED <<nodes, G, s, t, flow_dict, retMM, cancelledMM>>
    /\ UNCHANGED bfVars
    /\ UNCHANGED karpVars

\* CycleCancellingAlgorithm.__init__ as called by munchen.cycle_cancelling:
\* ValueError unless source and target are nodes; then flow 0 on every edge.
BFConstruct ==
    /\ pc = "construct"
    /\ pc' = IF InList(nodes, s) /\ InList(nodes, t) THEN "get_max_flow" ELSE "raised"
    /\ UNCHANGED <<nodes, G, s, t, cycle, cycle_min_flow, no_cycle_found, ret, cancelled,
                   passes>>
    /\ UNCHANGED mmVars
    /\ UNCHANGED karpVars

\* What an input edge may be made to lack or hold.
Defects == {"none", "no_capacity", "no_weight", "negative_capacity", "negative_weight"}

\* The edge e with the defect d.
WithDefect(e, d) ==
    LET full == [u |-> e.u, v |-> e.v, capacity |-> e.capacity, weight |-> e.weight,
                 flow |-> e.flow, attrs |-> {"capacity", "weight"}]
    IN  CASE d = "no_capacity"       -> [full EXCEPT !.capacity = 0, !.attrs = {"weight"}]
          [] d = "no_weight"         -> [full EXCEPT !.weight = 0, !.attrs = {"capacity"}]
          [] d = "negative_capacity" -> [full EXCEPT !.capacity = -1]
          [] d = "negative_weight"   -> [full EXCEPT !.weight = -1]
          [] OTHER                   -> full

\* The graph g with the defect d in edge k.
RECURSIVE WithDefects(_, _, _, _)
WithDefects(g, k, d, i) ==
    IF i > Len(g) THEN <<>>
    ELSE <<WithDefect(g[i], IF i = k THEN d ELSE "none")>> \o WithDefects(g, k, d, i + 1)

\* The sources and sinks handed in: a node of every graph, or no node of any.
ValidationSources == {0, 9}
ValidationSinks == {3, 9}

\* The inputs of the validation: a graph of Topology with at most one defect,
\* a source and a sink.
StartValidation(bf, mm) ==
    /\ \E c \in Capacities(Len(Topology), ValidationCapacity) :
           \E w \in WeightsFor(c) :
               \E k \in 1..Len(Topology), d \in Defects :
                   G = WithDefects(GraphOf(c, w), k, d, 1)
    /\ nodes = NodesOf(G, <<>>)
    /\ s \in ValidationSources
    /\ t \in ValidationSinks
    /\ pc = IF bf THEN "construct" ELSE "idle"
    /\ cycle = <<>>
    /\ cycle_min_flow = 0
    /\ no_cycle_found = FALSE
    /\ ret = <<>>
    /\ cancelled = 0
    /\ passes = 0
    /\ pcMM = IF mm THEN "validate" ELSE "idle"
    /\ flow_dict = <<>>
    /\ retMM = <<>>
    /\ cancelledMM = 0
    /\ karp_G = EmptyDiGraph
    /\ karp_out = KarpNotCalled

InitValidationMM == StartValidation(FALSE, TRUE)

NextValidationMM ==
    \/ MMValidate
    \/ MMMaxFlow
    \/ MMLoopPass

SpecValidationMM == InitValidationMM /\ [][NextValidationMM]_vars

InitValidationBF == StartValidation(TRUE, FALSE)

NextValidationBF ==
    \/ BFConstruct
    \/ GetMaxFlowAugment
    \/ GetMaxFlowExit
    \/ FindNegativeCycle
    \/ AdjustCycle
    \/ Return

SpecValidationBF == InitValidationBF /\ [][NextValidationBF]_vars

(***************************************************************************)
(* MultiR.py: cycle_cancelling on a MultiDiGraph residual graph.  pcMM,    *)
(* flow_dict, retMM and cancelledMM hold the position, the flow, the       *)
(* result and the number of cancellations of the run.                      *)
(***************************************************************************)
\* build_residual(G, flow): the arcs of the MultiDiGraph R in the order they
\* are added; parallel arcs are kept, each under its own key.
RECURSIVE MultiBuildResidual(_, _, _)
MultiBuildResidual(g, flow, i) ==
    IF i > Len(g) THEN <<>>
    ELSE LET e   == g[i]
             fwd == IF flow[i] < e.capacity
                    THEN <<[u |-> e.u, v |-> e.v, weight |-> e.weight,
                            capacity |-> e.capacity - flow[i], type |-> "fwd"]>>
                    ELSE <<>>
             bwd == IF flow[i] > 0
                    THEN <<[u |-> e.v, v |-> e.u, weight |-> -e.weight,
                            capacity |-> flow[i], type |-> "bwd"]>>
                    ELSE <<>>
         IN  fwd \o bwd \o MultiBuildResidual(g, flow, i + 1)

\* R[u][v].values(): the parallel arcs from u to v, by key.
ParallelArcs(R, u, v) ==
    LET FromTo(a) == a.u = u /\ a.v = v
    IN  SelectSeq(R, FromTo)

\* The first of the parallel arcs from u to v, whatever it costs.
FirstArc(R, u, v) == ParallelArcs(R, u, v)[1]

\* min(R[u][v].values(), key=lambda x: x['weight']): the first of the
\* cheapest parallel arcs from u to v.
CheapestArc(R, u, v) ==
    LET p == ParallelArcs(R, u, v)
    IN  p[CHOOSE k \in 1..Len(p) :
              /\ \A j \in 1..Len(p) : p[k].weight <= p[j].weight
              /\ \A j \in 1..(k - 1) : p[k].weight < p[j].weight]

\* The weight of the walk cyc from its step i on, each step at the weight of
\* its cheapest parallel arc.
RECURSIVE CycleWeight(_, _, _)
CycleWeight(R, cyc, i) ==
    IF i >= Len(cyc) THEN 0
    ELSE CheapestArc(R, cyc[i], cyc[i + 1]).weight + CycleWeight(R, cyc, i + 1)

\* Node lists n1 .. nk n1 with n1 .. nk distinct, k >= 2.
ClosedWalks(nds) ==
    UNION {{[j \in 1..(k + 1) |-> IF j <= k THEN p[j] ELSE p[1]] :
                p \in {q \in [1..k -> SetOf(nds)] :
                          \A a, b \in 1..k : a # b => q[a] # q[b]}} :
           k \in 2..Len(nds)}

\* What negative_cycle_func (nx.find_negative_cycle) may return on a
\* component of R: a cycle of R of negative weight, a multigraph step
\* weighing what its cheapest arc weighs.  Empty when it raises NetworkXError
\* on every component.
NegativeCycles(R, nds) ==
    {cyc \in ClosedWalks(nds) :
        /\ \A i \in 1..(Len(cyc) - 1) : ParallelArcs(R, cyc[i], cyc[i + 1]) # <<>>
        /\ CycleWeight(R, cyc, 1) < 0}

\* The first loop of augment_cycle: the least capacity of the chosen arcs.
RECURSIVE MultiBottleneck(_, _, _)
MultiBottleneck(R, cyc, i) ==
    IF i >= Len(cyc) THEN Inf
    ELSE Min(CheapestArc(R, cyc[i], cyc[i + 1]).capacity, MultiBottleneck(R, cyc, i + 1))

\* MultiAugmentFrom taking the first parallel arc of every step in place of
\* the cheapest.
RECURSIVE MultiAugmentFromFirstArc(_, _, _, _, _, _)
MultiAugmentFromFirstArc(g, R, flow, cyc, bottleneck, i) ==
    IF i >= Len(cyc) THEN flow
    ELSE LET u == cyc[i]
             v == cyc[i + 1]
             a == FirstArc(R, u, v)
         IN  IF a.type = "fwd"
             THEN MultiAugmentFromFirstArc(g, R,
                                           [flow EXCEPT ![EdgeIndex(g, u, v)] = @ + bottleneck],
                                           cyc, bottleneck, i + 1)
             ELSE MultiAugmentFromFirstArc(g, R,
                                           [flow EXCEPT ![EdgeIndex(g, v, u)] = @ - bottleneck],
                                           cyc, bottleneck, i + 1)

\* The second loop of augment_cycle: flow[u][v] += bottleneck on a chosen
\* forward arc, flow[v][u] -= bottleneck on a chosen backward arc.
RECURSIVE MultiAugmentFrom(_, _, _, _, _, _)
MultiAugmentFrom(g, R, flow, cyc, bottleneck, i) ==
    IF i >= Len(cyc) THEN flow
    ELSE LET u == cyc[i]
             v == cyc[i + 1]
             a == CheapestArc(R, u, v)
         IN  IF a.type = "fwd"
             THEN MultiAugmentFrom(g, R, [flow EXCEPT ![EdgeIndex(g, u, v)] = @ + bottleneck],
                                   cyc, bottleneck, i + 1)
             ELSE MultiAugmentFrom(g, R, [flow EXCEPT ![EdgeIndex(g, v, u)] = @ - bottleneck],
                                   cyc, bottleneck, i + 1)

\* augment_cycle(flow, cycle, R)
MultiAugmentCycle(g, R, flow, cyc) ==
    MultiAugmentFrom(g, R, flow, cyc, MultiBottleneck(R, cyc, 1), 1)

\* flow_dict = nx.maximum_flow(G, s, t, capacity=capacity)[1]: some maximum flow.
MultiRMaxFlow ==
    /\ pcMM = "max_flow"
    /\ flow_dict' \in MaximumFlows(G, nodes, s, t)
    /\ pcMM' = "main_loop"
    /\ UNCHANGED <<nodes, G, s, t, retMM, cancelledMM>>
    /\ UNCHANGED bfVars
    /\ UNCHANGED karpVars

\* One pass of the main loop: build R; when the detector returns a cycle on
\* some component, augment along it and go round again; when it raises on
\* every component, compute min_cost and return.
MultiRLoopPass ==
    /\ pcMM = "main_loop"
    /\ LET R == MultiBuildResidual(G, flow_dict, 1)
       IN  IF NegativeCycles(R, nodes) = {}
           THEN /\ retMM' = <<flow_dict, MinCost(G, flow_dict)>>
                /\ pcMM' = "returned"
                /\ UNCHANGED <<flow_dict, cancelledMM>>
           ELSE /\ \E cyc \in NegativeCycles(R, nodes) :
                       flow_dict' = MultiAugmentCycle(G, R, flow_dict, cyc)
                /\ cancelledMM' = cancelledMM + 1
                /\ pcMM' = "main_loop"
                /\ retMM' = retMM
    /\ UNCHANGED <<nodes, G, s, t>>
    /\ UNCHANGED bfVars
    /\ UNCHANGED karpVars

\* MultiR.cycle_cancelling alone, source # target.
InitMultiR == Start(Sinks \ {0}, FALSE, TRUE)

NextMultiR ==
    \/ MultiRMaxFlow
    \/ MultiRLoopPass

SpecMultiR == InitMultiR /\ [][NextMultiR]_vars

(***************************************************************************)
(* find_minimum_mean_negative_cycle called alone on a weighted DiGraph.    *)
(***************************************************************************)
\* The arcs a graph handed to the detector may have: two 2-cycles and a
\* 3-cycle on four nodes.
KarpTopology == << <<0, 1>>, <<1, 0>>, <<1, 2>>, <<2, 0>>, <<2, 3>>, <<3, 2>> >>

\* The graph with the arcs of KarpTopology whose weight is not Inf, added in
\* that order by add_edge (the detector reads the weight alone).
RECURSIVE KarpGraph(_, _, _)
KarpGraph(w, i, R) ==
    IF i > Len(KarpTopology) THEN R
    ELSE KarpGraph(w, i + 1,
                   IF w[i] = Inf THEN R
                   ELSE AddEdge(R, KarpTopology[i][1], KarpTopology[i][2], w[i], 1, "fwd"))

\* The inputs of the detector: integer weights of absolute value at most
\* KarpMaxWeight on any of the arcs of KarpTopology.
InitKarp ==
    /\ \E w \in [1..Len(KarpTopology) -> (-KarpMaxWeight..KarpMaxWeight) \cup {Inf}] :
           karp_G = KarpGraph(w, 1, EmptyDiGraph)
    /\ karp_out = KarpNotCalled
    /\ G = <<>>
    /\ nodes = <<>>
    /\ s = 0
    /\ t = 0
    /\ pc = "idle"
    /\ cycle = <<>>
    /\ cycle_min_flow = 0
    /\ no_cycle_found = FALSE
    /\ ret = <<>>
    /\ cancelled = 0
    /\ passes = 0
    /\ pcMM = "idle"
    /\ flow_dict = <<>>
    /\ retMM = <<>>
    /\ cancelledMM = 0

\* The call find_minimum_mean_negative_cycle(karp_G).
KarpCall ==
    /\ karp_out = KarpNotCalled
    /\ karp_out' = KarpOutcome(karp_G)
    /\ UNCHANGED karp_G
    /\ UNCHANGED <<nodes, G, s, t>>
    /\ UNCHANGED bfVars
    /\ UNCHANGED mmVars

SpecKarp == InitKarp /\ [][KarpCall]_vars

(***************************************************************************)
(* Cycle_cancelling_conectivity.py: cycle_cancelling, the variant that     *)
(* looks for a negative cycle in every strongly connected component of R.  *)
(* pcMM, flow_dict, retMM and cancelledMM hold the position, the flow, the *)
(* result and the number of cancellations of the run.                      *)
(***************************************************************************)
\* The weight of the node list c in the DiGraph R, from its step i on.
RECURSIVE ListWeight(_, _, _)
ListWeight(R, c, i) ==
    IF i >= Len(c) THEN 0
    ELSE ArcOf(R, c[i], c[i + 1]).weight + ListWeight(R, c, i + 1)

\* The paths of k nodes of the DiGraph R, no node twice.
RECURSIVE PathsOf(_, _)
PathsOf(R, k) ==
    IF k = 1 THEN {<<n>> : n \in SetOf(R.nodes)}
    ELSE UNION {{Append(p, R.arcs[a].v) :
                    a \in {b \in 1..Len(R.arcs) :
                              R.arcs[b].u = p[Len(p)] /\ ~InList(p, R.arcs[b].v)}} :
                p \in PathsOf(R, k - 1)}

\* The cycles of the DiGraph R: node lists closed by their first node, no
\* other node twice, every step an arc of R.
CyclesOf(R) ==
    UNION {{Append(p, p[1]) : p \in {q \in PathsOf(R, k) : HasEdge(R, q[k], q[1])}} :
           k \in 2..Len(R.nodes)}

\* The body of build_residual's loop for the edge e carrying flow f: add_edge
\* on an arc already in R rewrites its capacity and weight.
ConnResidualStep(R, e, f) ==
    LET R1 == IF e.capacity - f > 0
              THEN AddEdge(R, e.u, e.v, e.weight, e.capacity - f, "")
              ELSE R
    IN  IF f > 0 THEN AddEdge(R1, e.v, e.u, -e.weight, f, "") ELSE R1

RECURSIVE ConnBuildResidualFrom(_, _, _, _)
ConnBuildResidualFrom(g, flow, i, R) ==
    IF i > Len(g) THEN R
    ELSE ConnBuildResidualFrom(g, flow, i + 1, ConnResidualStep(R, g[i], flow[i]))

\* build_residual(G, flow)
ConnBuildResidual(g, flow) == ConnBuildResidualFrom(g, flow, 1, EmptyDiGraph)

\* What negative_cycle_func (nx.find_negative_cycle) may return on a
\* component of R: a cycle of R of negative weight.  Empty when it raises
\* NetworkXError on every component.
ConnNegativeCycles(R) == {c \in CyclesOf(R) : ListWeight(R, c, 1) < 0}

\* augment_cycle(flow, cycle, bottleneck): G.has_edge(u, v) is asked first,
\* then G.has_edge(v, u); the flow after the loop, and whether it raised.
RECURSIVE ConnAugmentCycle(_, _, _, _, _)
ConnAugmentCycle(g, flow, cyc, bottleneck, i) ==
    IF i >= Len(cyc) THEN [flow |-> flow, raised |-> FALSE]
    ELSE LET u == cyc[i]
             v == cyc[i + 1]
         IN  IF EdgeIndex(g, u, v) # 0
             THEN ConnAugmentCycle(g, [flow EXCEPT ![EdgeIndex(g, u, v)] = @ + bottleneck],
                                   cyc, bottleneck, i + 1)
             ELSE IF EdgeIndex(g, v, u) # 0
             THEN ConnAugmentCycle(g, [flow EXCEPT ![EdgeIndex(g, v, u)] = @ - bottleneck],
                                   cyc, bottleneck, i + 1)
             ELSE [flow |-> flow, raised |-> TRUE]

\* Validation passed; the initial maximum flow, zero where unassigned.
ConnMaxFlow ==
    /\ pcMM = "max_flow"
    /\ flow_dict' \in MaximumFlows(G, nodes, s, t)
    /\ pcMM' = "main_loop"
    /\ UNCHANGED <<nodes, G, s, t, retMM, cancelledMM>>
    /\ UNCHANGED bfVars
    /\ UNCHANGED karpVars

\* One pass of the main loop, the first ConnMaxCancellations cancellations of
\* a run: build R; when the detector returns a cycle on some component, the
\* bottleneck, its fault check and augment_cycle; when it raises on every
\* component, compute min_cost and return.
ConnLoopPass ==
    /\ pcMM = "main_loop"
    /\ cancelledMM < ConnMaxCancellations
    /\ LET R == ConnBuildResidual(G, flow_dict)
       IN  IF ConnNegativeCycles(R) = {}
           THEN /\ retMM' = <<flow_dict, MinCost(G, flow_dict)>>
                /\ pcMM' = "returned"
                /\ UNCHANGED <<flow_dict, cancelledMM>>
           ELSE /\ \E cyc \in ConnNegativeCycles(R) :
                       LET b   == Bottleneck(R, cyc, 1)
                           aug == ConnAugmentCycle(G, flow_dict, cyc, b, 1)
                       IN  IF b <= 0 \/ aug.raised
                           THEN pcMM' = "fault" /\ UNCHANGED <<flow_dict, cancelledMM>>
                           ELSE /\ pcMM' = "main_loop"
                                /\ flow_dict' = aug.flow
                                /\ cancelledMM' = cancelledMM + 1
                /\ retMM' = retMM
    /\ UNCHANGED <<nodes, G, s, t>>
    /\ UNCHANGED bfVars
    /\ UNCHANGED karpVars

\* Cycle_cancelling_conectivity.cycle_cancelling alone, source # target.
InitConn == Start(Sinks \ {0}, FALSE, TRUE)

NextConn ==
    \/ ConnMaxFlow
    \/ ConnLoopPass

SpecConn == InitConn /\ [][NextConn]_vars

(***************************************************************************)
(* Reference values the properties compare the engines with.               *)
(***************************************************************************)
\* The flows munchen keeps in G, by edge.
FlowOf(g) == [i \in 1..Len(g) |-> g[i].flow]

\* The cost of a flow assignment.
RECURSIVE CostOf(_, _)
CostOf(g, flow) ==
    IF g = <<>> THEN 0
    ELSE Head(flow) * Head(g).weight + CostOf(Tail(g), Tail(flow))

\* The least cost of a feasible flow of value val.
TrueMinCost(g, nds, src, snk, val) ==
    MinOf({CostOf(g, f) : f \in {x \in FeasibleFlows(g, nds, src, snk) :
                                    NetOut(g, x, src) = val}})

WithinBounds(g, flow) == \A i \in 1..Len(g) : 0 <= flow[i] /\ flow[i] <= g[i].capacity

Conserved(g, nds, src, snk, flow) ==
    \A n \in SetOf(nds) \ {src, snk} : NetOut(g, flow, n) = 0

(***************************************************************************)
(* The claims.                                                             *)
(***************************************************************************)
\* C1: run() of the Bellman-Ford engine terminates: the cancel loop observes
\* "no negative cycle" after finitely many iterations.  The detector's
\* result depends on the flow alone and the flow stays within the
\* capacities, so a run that terminates calls the detector at most
\* PassLimit(G) times.
C1_RunTerminates == passes <= PassLimit(G)

\* C2: whenever run() returns, the net flow out of the source in the
\* returned flow is the maximum source-to-sink flow value of the graph.
C2_FlowValueIsMaximum ==
    pc = "returned" => NetOut(G, ret[1], s) = MaxFlowValue(G, nodes, s, t)

C2_Witness ==
    /\ pc = "returned"
    /\ NetOut(G, ret[1], s) >= 2
    /\ \E i \in 1..Len(G) : 0 < ret[1][i] /\ ret[1][i] < G[i].capacity

\* C3: whenever run() returns, the returned total cost is the least cost of
\* a feasible flow of the same source-to-sink value.
C3_CostIsMinimum ==
    pc = "returned" => ret[2] = TrueMinCost(G, nodes, s, t, NetOut(G, ret[1], s))

C3_Witness ==
    /\ pc = "returned"
    /\ ret[2] > 0
    /\ \E f \in FeasibleFlows(G, nodes, s, t) :
           NetOut(G, f, s) = NetOut(G, ret[1], s) /\ CostOf(G, f) > ret[2]

C5_FlowWithinCapacity == WithinBounds(G, FlowOf(G))

C5_Witness ==
    /\ pc = "main_loop"
    /\ cancelled > 0
    /\ \E i \in 1..Len(G) : G[i].flow = G[i].capacity /\ G[i].capacity > 0

\* C6: after every path augmentation and every cycle adjustment of the
\* Bellman-Ford engine the inflow of every node other than source and sink
\* equals its outflow.
C6_FlowConserved == Conserved(G, nodes, s, t, FlowOf(G))

C6_Witness ==
    /\ pc = "main_loop"
    /\ cancelled > 0
    /\ NetOut(G, FlowOf(G), s) > 0
    /\ G[3].flow > 0

\* C7: after every call of augment_cycle of the Karp engine every edge has
\* 0 <= flow <= capacity and the flow is conserved at every node (the
\* balance of source and sink stays the value of the maximum flow), also
\* with anti-parallel edges.
C7_KarpFlowFeasible ==
    pcMM \in {"main_loop", "returned", "fault"} =>
        /\ WithinBounds(G, flow_dict)
        /\ \A n \in SetOf(nodes) :
               NetOut(G, flow_dict, n) =
                   IF n = s THEN MaxFlowValue(G, nodes, s, t)
                   ELSE IF n = t THEN -MaxFlowValue(G, nodes, s, t)
                   ELSE 0

C7_Witness ==
    /\ cancelledMM > 0
    /\ G[3].capacity > 0
    /\ G[5].capacity > 0
    /\ flow_dict[3] + flow_dict[5] > 0

\* C8: every iteration of _main_loop in which the detector signals a cycle
\* strictly decreases the total cost of the flow assignment.
C8_CancellationDecreasesCost ==
    [][pc = "adjust_cycle" => TotalCost(G') < TotalCost(G)]_vars

\* The greatest cost a flow within the capacities can have.
RECURSIVE CostBound(_)
CostBound(g) ==
    IF g = <<>> THEN 0 ELSE Head(g).capacity * Head(g).weight + CostBound(Tail(g))

\* C9: the main loop of the Karp engine terminates after finitely many
\* cancellations, because each pushes a positive bottleneck around a cycle
\* of negative cost: each cancellation lowers the integer cost by at least
\* one, so the cancellations made and the cost left never exceed the
\* greatest cost a flow can have, and no run makes more cancellations.
C9_KarpLoopTerminates ==
    pcMM \in {"main_loop", "returned", "fault"} =>
        /\ MinCost(G, flow_dict) >= 0
        /\ cancelledMM + MinCost(G, flow_dict) <= CostBound(G)

C9_Witness == pcMM = "returned" /\ cancelledMM >= 2

RECURSIVE WithFlow(_, _)
WithFlow(g, flow) ==
    IF g = <<>> THEN <<>>
    ELSE <<[Head(g) EXCEPT !.flow = Head(flow)]>> \o WithFlow(Tail(g), Tail(flow))

\* C11: in both engines the detection leaves the flow assignment as it was,
\* and the detector run once more on the returned flow reports no negative
\* cycle (munchen: no_cycle_found True; Karp: NetworkXError).
C11_DetectionIdempotent ==
    [][/\ pc = "main_loop" => G' = G
       /\ pc' = "returned" =>
              FindNegativeCycleResult(WithFlow(G', ret'[1]), nodes', t').no_cycle_found
       /\ pcMM' = "returned" =>
              /\ retMM'[1] = flow_dict
              /\ FindMinimumMeanNegativeCycle(BuildResidual(G', retMM'[1])) = <<>>]_vars

C11_Witness ==
    /\ pc = "returned"
    /\ pcMM = "returned"
    /\ cancelled > 0
    /\ cancelledMM > 0

\* C12: on the scenario graph (graph 2), source 0 and sink 3, the driver
\* terminates with a flow of value 5 and total cost 7.
C12_ScenarioResult ==
    pc = "returned" /\ WithFlow(G, [i \in 1..Len(G) |-> 0]) = BuiltGraph(Graph2Edges) =>
        NetOut(G, ret[1], s) = 5 /\ ret[2] = 7

\* C12 as amended: on the scenario graph the driver terminates with a flow
\* of value 6 and total cost 14.
C12_ScenarioResultAmended ==
    pc = "returned" /\ WithFlow(G, [i \in 1..Len(G) |-> 0]) = BuiltGraph(Graph2Edges) =>
        NetOut(G, ret[1], s) = 6 /\ ret[2] = 14

C12_Witness ==
    /\ pc = "returned"
    /\ WithFlow(G, [i \in 1..Len(G) |-> 0]) = BuiltGraph(Graph2Edges)
    /\ cancelled = 1

\* The flow _get_max_flow leaves on g: augmentations until the sink is
\* unreached.
RECURSIVE MaxFlowInitializer(_, _, _, _)
MaxFlowInitializer(g, nds, src, snk) ==
    LET pred == BFS(g, SetOf(nds), src, snk)
        path == ReconstructPath(pred, snk, src)
    IN  IF pred[snk] = None THEN g
        ELSE MaxFlowInitializer(ApplySteps(g, path, Augmentation(path)), nds, src, snk)

\* The arcs of the residual graph of the flow on g, as <<from, to, cost>>.
ResidualArcs(g) ==
    {<<g[i].u, g[i].v, g[i].weight>> : i \in {j \in 1..Len(g) : g[j].capacity > g[j].flow}}
    \cup {<<g[i].v, g[i].u, -g[i].weight>> : i \in {j \in 1..Len(g) : g[j].flow > 0}}

\* The least cost of a walk of exactly k residual arcs between each two nodes.
RECURSIVE WalkCost(_, _, _)
WalkCost(arcs, N, k) ==
    IF k = 1
    THEN [a \in N, b \in N |->
             MinOf({Inf} \cup {e[3] : e \in {x \in arcs : x[1] = a /\ x[2] = b}})]
    ELSE LET d == WalkCost(arcs, N, k - 1)
         IN  [a \in N, b \in N |->
                 MinOf({Inf} \cup {AddInf(d[a, e[1]], e[3]) : e \in {x \in arcs : x[2] = b}})]

\* The residual graph of the flow on g has a cycle of negative cost.
HasNegativeResidualCycle(g, nds) ==
    \E k \in 1..Len(nds) :
        \E n \in SetOf(nds) : WalkCost(ResidualArcs(g), SetOf(nds), k)[n, n] < 0

\* C13: whenever the residual graph of the flow of the max-flow initializer
\* has a negative cycle, the driver cancels at least one cycle and returns a
\* total cost below the cost of that flow (a run that returns calls the
\* detector at most PassLimit(G) times).
C13_LatentCycleCancelled ==
    s # t /\ pc # "get_max_flow" =>
        LET g0 == MaxFlowInitializer(WithFlow(G, [i \in 1..Len(G) |-> 0]), nodes, s, t)
        IN  HasNegativeResidualCycle(g0, nodes) =>
                /\ passes <= PassLimit(G)
                /\ pc \in {"loop_exit", "returned"} =>
                       cancelled >= 1 /\ TotalCost(G) < TotalCost(g0)

\* The nodes reached from the nodes of S along edges of g.
RECURSIVE ReachedFrom(_, _)
ReachedFrom(g, S) ==
    LET more == S \cup {g[i].v : i \in {j \in 1..Len(g) : g[j].u \in S}}
    IN  IF more = S THEN S ELSE ReachedFrom(g, more)

\* C14: when the base graph has no directed path from source to sink
\* (source # sink), run() returns flow 0 on every edge and total cost 0, the
\* first detection reports no negative cycle and nothing is cancelled.
C14_DisconnectedZeroFlow ==
    s # t /\ t \notin ReachedFrom(G, {s}) =>
        /\ \A i \in 1..Len(G) : G[i].flow = 0
        /\ cancelled = 0
        /\ pc # "adjust_cycle"
        /\ pc \in {"loop_exit", "returned"} => no_cycle_found /\ passes = 1
        /\ pc = "returned" => ret = <<[i \in 1..Len(G) |-> 0], 0>>

C14_Witness ==
    /\ pc = "returned"
    /\ t \notin ReachedFrom(G, {s})
    /\ \E i \in 1..Len(G) : G[i].capacity > 0 /\ G[i].weight > 0

\* The input is one the spec's validation must reject: source or sink is no
\* node, or an edge lacks capacity or weight or holds a negative one.
InvalidInput(g, nds, src, snk) ==
    \/ ~InList(nds, src)
    \/ ~InList(nds, snk)
    \/ \E i \in 1..Len(g) :
           \/ "capacity" \notin g[i].attrs
           \/ "weight" \notin g[i].attrs
           \/ g[i].capacity < 0
           \/ g[i].weight < 0

\* C15: cycle_cancelling_MM.cycle_cancelling rejects every input whose source
\* or sink is no node, or with an edge lacking capacity or weight or holding
\* a negative one: the only step it takes on such an input is the raise,
\* before any maximum flow or residual graph, with the graph as it was.
C15_KarpRejectsInvalid ==
    [][InvalidInput(G, nodes, s, t) =>
           /\ pcMM = "validate"
           /\ pcMM' = "raised"
           /\ G' = G
           /\ flow_dict' = <<>>
           /\ retMM' = <<>>
           /\ cancelledMM' = 0]_vars

C15_Witness ==
    /\ pcMM = "raised"
    /\ InList(nodes, s)
    /\ InList(nodes, t)
    /\ \E i \in 1..Len(G) : G[i].weight < 0
    /\ \A i \in 1..Len(G) : G[i].attrs = {"capacity", "weight"} /\ G[i].capacity >= 0

\* Some edge lacks capacity or weight, or holds a negative one.
HasInvalidEdge(g) ==
    \E i \in 1..Len(g) :
        \/ "capacity" \notin g[i].attrs
        \/ "weight" \notin g[i].attrs
        \/ g[i].capacity < 0
        \/ g[i].weight < 0

\* C16: constructing and running CycleCancellingAlgorithm rejects, before any
\* flow is computed, every input with an edge lacking capacity or weight or
\* holding a negative one: such a run never gets past the constructor.
C16_BFRejectsInvalid ==
    HasInvalidEdge(G) => pc \in {"construct", "raised"}

\* C17: when the detector has signalled a cycle but the cycle is empty or
\* cycle_min_flow is not positive, the run aborts: it never goes back to the
\* head of the loop with the flow unchanged.
C17_DegenerateCycleAborts ==
    [][pc = "adjust_cycle" /\ (cycle = <<>> \/ cycle_min_flow <= 0)
         => ~(pc' = "main_loop" /\ G' = G)]_vars

\* R holds an arc a -> b of the given type, capacity and weight.
HasResidualArc(R, a, b, ty, c, w) ==
    \E k \in 1..Len(R.arcs) :
        R.arcs[k] = [u |-> a, v |-> b, weight |-> w, capacity |-> c, type |-> ty]

\* C18: in the residual graph build_residual makes of the current flow, every
\* edge (u, v) with capacity cap, weight w and flow f has its forward arc
\* u -> v (capacity cap - f, weight w) exactly when cap > f and its backward
\* arc v -> u (capacity f, weight -w) exactly when f > 0; so the forward arc
\* of one edge of an anti-parallel pair and the backward arc of the other are
\* both in the graph.
C18_ResidualHoldsEveryArc ==
    pcMM = "main_loop" =>
        LET R == BuildResidual(G, flow_dict)
        IN  \A i \in 1..Len(G) :
                /\ HasResidualArc(R, G[i].u, G[i].v, "fwd",
                                  G[i].capacity - flow_dict[i], G[i].weight)
                       <=> G[i].capacity > flow_dict[i]
                /\ HasResidualArc(R, G[i].v, G[i].u, "bwd", flow_dict[i], -G[i].weight)
                       <=> flow_dict[i] > 0

\* C19: in MultiR.cycle_cancelling the residual graph holds, for every edge
\* (u, v) with capacity cap, weight w and flow f, a forward arc u -> v
\* (cap - f, w) when cap > f and a backward arc v -> u (f, -w) when f > 0, so
\* that the forward arc of (u, v) and the backward arc of (v, u) are two
\* parallel arcs; and every cancellation leaves 0 <= flow <= capacity on
\* every edge and makes the total cost strictly smaller.
C19_MultiResidualAugments ==
    [][pcMM = "main_loop" =>
          /\ LET R == MultiBuildResidual(G, flow_dict, 1)
             IN  \A i \in 1..Len(G) :
                     /\ G[i].capacity > flow_dict[i] <=>
                            \E k \in 1..Len(R) :
                                R[k] = [u |-> G[i].u, v |-> G[i].v, weight |-> G[i].weight,
                                        capacity |-> G[i].capacity - flow_dict[i],
                                        type |-> "fwd"]
                     /\ flow_dict[i] > 0 <=>
                            \E k \in 1..Len(R) :
                                R[k] = [u |-> G[i].v, v |-> G[i].u, weight |-> -G[i].weight,
                                        capacity |-> flow_dict[i], type |-> "bwd"]
          /\ pcMM' = "main_loop" =>
                 /\ \A i \in 1..Len(G) : 0 <= flow_dict'[i] /\ flow_dict'[i] <= G[i].capacity
                 /\ MinCost(G, flow_dict') < MinCost(G, flow_dict)]_vars

\* A cancellation has been made and the residual graph of the flow it left
\* holds two parallel arcs from 1 to 2: the forward arc of (1, 2) and the
\* backward arc of (2, 1).
C19_Witness ==
    /\ pcMM = "main_loop"
    /\ cancelledMM > 0
    /\ LET p == ParallelArcs(MultiBuildResidual(G, flow_dict, 1), 1, 2)
       IN  Len(p) = 2 /\ p[1].type = "fwd" /\ p[2].type = "bwd"

\* C20: within one run of munchen's run() the max-flow initializer is never
\* entered again once it is left, and it is left only when no augmenting path
\* remains, before the first detection; the flow changes only in the
\* initializer and in a cancellation, a cancellation is followed at once by a
\* detection and a detection reads the flow without changing it, so every
\* detection sees the flow the preceding cancellation left; and from the exit
\* of the loop on the flow is not changed and is what is returned.
C20_DriverOrdering ==
    [][/\ pc # "get_max_flow" => pc' # "get_max_flow"
       /\ pc = "main_loop" /\ passes = 0 => BFS(G, SetOf(nodes), s, t)[t] = None
       /\ G' # G => pc \in {"get_max_flow", "adjust_cycle"}
       /\ pc = "adjust_cycle" => pc' = "main_loop"
       /\ pc = "main_loop" =>
              /\ G' = G
              /\ no_cycle_found' = FindNegativeCycleResult(G, nodes, t).no_cycle_found
              /\ pc' \in {"adjust_cycle", "loop_exit"}
       /\ pc \in {"loop_exit", "returned"} => G' = G /\ pc' = "returned"
       /\ pc' = "returned" => ret'[1] = BuildFlowDict(G)]_vars

\* A run that made its maximum flow, cancelled a cycle, ran the detector
\* again and returned.
C20_Witness ==
    /\ pc = "returned"
    /\ cancelled >= 1
    /\ passes >= 2
    /\ NetOut(G, ret[1], s) >= 1

\* The node a step of a cycle leads into (it comes from step.prev_node).
StepHead(g, step) == IF step.direction = 1 THEN g[step.edge].v ELSE g[step.edge].u

\* The residual cost of the steps of cyc from step i on.
RECURSIVE StepsCost(_, _, _)
StepsCost(g, cyc, i) ==
    IF i > Len(cyc) THEN 0
    ELSE cyc[i].direction * g[cyc[i].edge].weight + StepsCost(g, cyc, i + 1)

\* cyc, as the walk along the predecessors collects it, is a closed sequence
\* of residual arcs of g.
ClosedResidualCycle(g, cyc) ==
    /\ cyc # <<>>
    /\ \A i \in 1..Len(cyc) :
           /\ cyc[i].prev_node = (IF cyc[i].direction = 1 THEN g[cyc[i].edge].u
                                  ELSE g[cyc[i].edge].v)
           /\ cyc[i].direction = 1 => g[cyc[i].edge].capacity > g[cyc[i].edge].flow
           /\ cyc[i].direction = -1 => g[cyc[i].edge].flow > 0
    /\ \A i \in 1..(Len(cyc) - 1) : StepHead(g, cyc[i + 1]) = cyc[i].prev_node
    /\ cyc[Len(cyc)].prev_node = StepHead(g, cyc[1])

\* C21: whenever _find_negative_cycle has signalled a cycle, self.cycle is a
\* non-empty closed sequence of residual arcs of negative total cost and
\* cycle_min_flow is the least residual capacity along it, and positive.
C21_DetectedCycleWellFormed ==
    pc = "adjust_cycle" =>
        /\ ClosedResidualCycle(G, cycle)
        /\ StepsCost(G, cycle, 1) < 0
        /\ cycle_min_flow > 0
        /\ \A i \in 1..Len(cycle) : cycle_min_flow <= StepResidual(G, cycle[i])
        /\ \E i \in 1..Len(cycle) : cycle_min_flow = StepResidual(G, cycle[i])

\* The residual graph of the flow on g has a cycle of negative cost on a node
\* that residual arcs reach from snk.
ReachableNegativeCycle(g, nds, snk) ==
    LET N     == SetOf(nds)
        arcs  == ResidualArcs(g)
        reach == {snk} \cup {n \in N : \E j \in 1..Len(nds) :
                                           WalkCost(arcs, N, j)[snk, n] < Inf}
    IN  \E k \in 1..Len(nds) : \E n \in reach : WalkCost(arcs, N, k)[n, n] < 0

\* C22: _find_negative_cycle reports no negative cycle exactly when the
\* residual graph of the current flow has no negative cycle that can be
\* reached from the sink.
C22_DetectorExact ==
    pc \in {"adjust_cycle", "loop_exit"} =>
        (no_cycle_found <=> ~ReachableNegativeCycle(G, nodes, t))

\* A detection after a cancellation that reported no cycle, where an edge was
\* still relaxable after the first sweep.
C22_Witness ==
    /\ pc = "loop_exit"
    /\ no_cycle_found
    /\ cancelled >= 1
    /\ ~ReachableNegativeCycle(G, nodes, t)
    /\ HasCycle(G, RelaxPassesSingleSweep(G, 1,
                      [dist    |-> [n \in SetOf(nodes) |-> IF n = t THEN 0 ELSE Inf],
                       pred    |-> [n \in SetOf(nodes) |-> NoPred],
                       updated |-> FALSE]).dist)

\* C23: whenever find_minimum_mean_negative_cycle returns a list, its first
\* node is its last, no other node repeats, every consecutive pair is an arc
\* of the input graph and the weights around it sum to less than 0.
C23_KarpCycleWellFormed ==
    karp_out.raised = "" =>
        LET c == karp_out.cycle
        IN  /\ Len(c) >= 2
            /\ c[1] = c[Len(c)]
            /\ \A i, j \in 1..(Len(c) - 1) : i # j => c[i] # c[j]
            /\ \A i \in 1..(Len(c) - 1) : HasEdge(karp_G, c[i], c[i + 1])
            /\ ListWeight(karp_G, c, 1) < 0

\* The detector returned a cycle of three arcs from a graph that also has a
\* cycle of two arcs.
C23_Witness ==
    /\ karp_out.raised = ""
    /\ Len(karp_out.cycle) = 4
    /\ \E c \in CyclesOf(karp_G) : Len(c) = 3

\* C24: whenever the detector returns a cycle, the mean cost of the cycle is
\* the least mean cost of the cycles of the input graph, and is mu.
C24_KarpCycleIsMinimumMean ==
    karp_out.raised = "" =>
        LET c    == karp_out.cycle
            mean == <<ListWeight(karp_G, c, 1), Len(c) - 1>>
        IN  /\ c \in CyclesOf(karp_G)
            /\ \A d \in CyclesOf(karp_G) :
                   ~FracLess(<<ListWeight(karp_G, d, 1), Len(d) - 1>>, mean)
            /\ mean[1] * karp_out.mu[2] = karp_out.mu[1] * mean[2]

\* The detector returned a cycle although the graph has a negative cycle of
\* greater mean and a different number of arcs.
C24_Witness ==
    /\ karp_out.raised = ""
    /\ \E d \in CyclesOf(karp_G) :
           /\ ListWeight(karp_G, d, 1) < 0
           /\ Len(d) # Len(karp_out.cycle)
           /\ FracLess(<<ListWeight(karp_G, karp_out.cycle, 1), Len(karp_out.cycle) - 1>>,
                       <<ListWeight(karp_G, d, 1), Len(d) - 1>>)

\* C25: with integer weights the detector raises NetworkXError exactly when
\* the input graph has no cycle of negative weight, and never for a cycle it
\* failed to reconstruct.
C25_KarpRaisesExactly ==
    karp_out # KarpNotCalled =>
        /\ karp_out.raised # "" <=> \A d \in CyclesOf(karp_G) : ListWeight(karp_G, d, 1) >= 0
        /\ karp_out.raised # "Failed to reconstruct cycle"

\* The detector raised on a graph that has cycles, none of them negative, and
\* a node where no walk of |V| arcs ends.
C25_Witness ==
    /\ karp_out.raised = "No negative mean cycle found"
    /\ CyclesOf(karp_G) # {}
    /\ \E v \in SetOf(karp_G.nodes) : DPTable(karp_G)[Len(karp_G.nodes) + 1].dp[v] = Inf

\* The net flow out of src under the flow on g.
SourceOutflow(g, src) == NetOut(g, BuildFlowDict(g), src)

\* C26: the augmenting loop of _get_max_flow ends after finitely many BFS
\* rounds on every input the constructor accepts: every round that finds a
\* path raises the net flow out of the source, which the capacities bound.
C26_MaxFlowRoundsProgress ==
    pc = "get_max_flow" =>
        LET pred == BFS(G, SetOf(nodes), s, t)
            path == ReconstructPath(pred, t, s)
        IN  pred[t] # None =>
                SourceOutflow(ApplySteps(G, path, Augmentation(path)), s) > SourceOutflow(G, s)

\* The node a step of an augmenting path leads into (it comes from step.node).
PathStepHead(g, step) == IF step.direction = 1 THEN g[step.edge].v ELSE g[step.edge].u

\* path, sink end first as the walk back collects it, is a path of residual
\* arcs of g from src to snk.
ResidualPath(g, path, src, snk) ==
    /\ \A i \in 1..Len(path) :
           /\ path[i].node = (IF path[i].direction = 1 THEN g[path[i].edge].u
                              ELSE g[path[i].edge].v)
           /\ path[i].residual_capacity = StepResidual(g, path[i])
           /\ path[i].residual_capacity > 0
    /\ \A i \in 1..(Len(path) - 1) : PathStepHead(g, path[i + 1]) = path[i].node
    /\ path # <<>> => PathStepHead(g, path[1]) = snk /\ path[Len(path)].node = src
    /\ path = <<>> => src = snk

\* C27: every path a BFS round of _get_max_flow finds is a path of residual
\* arcs from the source to the sink with the fewest arcs there can be; its
\* bottleneck is the least residual capacity along it, and positive; applying
\* it adds the bottleneck to the flow of its forward arcs, takes it from the
\* flow of its backward arcs and changes no other flow, and the net flow out
\* of the source grows by exactly the bottleneck.
C27_AugmentingPathShortest ==
    pc = "get_max_flow" =>
        LET pred  == BFS(G, SetOf(nodes), s, t)
            path  == ReconstructPath(pred, t, s)
            b     == Augmentation(path)
            after == ApplySteps(G, path, b)
        IN  pred[t] # None =>
                /\ ResidualPath(G, path, s, t)
                /\ \A k \in 1..(Len(path) - 1) :
                       WalkCost(ResidualArcs(G), SetOf(nodes), k)[s, t] = Inf
                /\ b > 0
                /\ \A i \in 1..Len(path) : b <= StepResidual(G, path[i])
                /\ \E i \in 1..Len(path) : b = StepResidual(G, path[i])
                /\ \A e \in 1..Len(G) :
                       after[e].flow - G[e].flow =
                           (IF \E i \in 1..Len(path) : path[i].edge = e /\ path[i].direction = 1
                            THEN b ELSE 0)
                           - (IF \E i \in 1..Len(path) :
                                     path[i].edge = e /\ path[i].direction = -1
                              THEN b ELSE 0)
                /\ SourceOutflow(after, s) = SourceOutflow(G, s) + b

\* C28: in Cycle_cancelling_conectivity.cycle_cancelling every cancellation
\* raises the flow of the base edge of a forward residual arc and lowers the
\* flow of the base edge of a backward residual arc, so that after every
\* cancellation 0 <= flow <= capacity holds on every edge, anti-parallel
\* edges included.
C28_ConnFlowWithinCapacity ==
    cancelledMM > 0 =>
        \A i \in 1..Len(G) : 0 <= flow_dict[i] /\ flow_dict[i] <= G[i].capacity

\* C29: in cycle_cancelling_MM.cycle_cancelling neither RuntimeError is
\* raised on a validated input: the bottleneck of a detected cycle is
\* positive and every arc of the cycle is the forward arc of an edge (u, v)
\* or the backward arc of an edge (v, u) of the base graph.
C29_KarpEngineNeverFaults ==
    /\ pcMM # "fault"
    /\ pcMM = "main_loop" =>
           LET R   == BuildResidual(G, flow_dict)
               cyc == FindMinimumMeanNegativeCycle(R)
           IN  cyc # <<>> =>
                   /\ Bottleneck(R, cyc, 1) > 0
                   /\ ~AugmentCycle(G, R, flow_dict, cyc, Bottleneck(R, cyc, 1), 1).raised

\* A pass of the main loop with a detected cycle that runs over a backward
\* arc, after an earlier cancellation.
C29_Witness ==
    /\ pcMM = "main_loop"
    /\ cancelledMM >= 1
    /\ LET R   == BuildResidual(G, flow_dict)
           cyc == FindMinimumMeanNegativeCycle(R)
       IN  /\ cyc # <<>>
           /\ \E i \in 1..(Len(cyc) - 1) : ArcOf(R, cyc[i], cyc[i + 1]).type = "bwd"

\* The change _adjust_cycle owes the flow of edge e: cycle_min_flow up on a
\* forward step of the cycle, down on a backward step, nothing elsewhere.
CycleChange(cyc, amount, e) ==
    IF \E i \in 1..Len(cyc) : cyc[i].edge = e /\ cyc[i].direction = 1 THEN amount
    ELSE IF \E i \in 1..Len(cyc) : cyc[i].edge = e /\ cyc[i].direction = -1 THEN -amount
    ELSE 0

\* The change augment_cycle owes the flow of the edge e of g: the bottleneck
\* up when the cycle runs over its forward arc, down when it runs over its
\* backward arc, nothing elsewhere.
ArcChange(g, R, cyc, amount, e) ==
    IF \E i \in 1..(Len(cyc) - 1) :
           /\ cyc[i] = g[e].u /\ cyc[i + 1] = g[e].v
           /\ ArcOf(R, cyc[i], cyc[i + 1]).type = "fwd"
    THEN amount
    ELSE IF \E i \in 1..(Len(cyc) - 1) :
                /\ cyc[i] = g[e].v /\ cyc[i + 1] = g[e].u
                /\ ArcOf(R, cyc[i], cyc[i + 1]).type = "bwd"
    THEN -amount
    ELSE 0

\* C30: in both engines a cancellation changes the flow of the base edges
\* under the arcs of the detected cycle alone, each by exactly the
\* bottleneck; no step changes an edge's ends, capacity or weight, and a pass
\* that detects no cycle changes no flow.
C30_CancellationFrame ==
    [][/\ Len(G') = Len(G)
       /\ \A e \in 1..Len(G) : [G'[e] EXCEPT !.flow = 0] = [G[e] EXCEPT !.flow = 0]
       /\ pc = "main_loop" => G' = G
       /\ pc = "adjust_cycle" =>
              \A e \in 1..Len(G) :
                  G'[e].flow - G[e].flow = CycleChange(cycle, cycle_min_flow, e)
       /\ pcMM = "main_loop" =>
              LET R   == BuildResidual(G, flow_dict)
                  cyc == FindMinimumMeanNegativeCycle(R)
              IN  /\ cyc = <<>> => flow_dict' = flow_dict
                  /\ \A e \in 1..Len(G) :
                         flow_dict'[e] - flow_dict[e] =
                             ArcChange(G, R, cyc, Bottleneck(R, cyc, 1), e)]_vars

\* Both engines have cancelled a cycle, and the Karp engine has left the flow
\* of an edge that carries flow as the maximum flow set it.
C30_Witness ==
    /\ cancelled >= 1
    /\ cancelledMM >= 1
    /\ pcMM = "main_loop"
    /\ \E e \in 1..Len(G) : flow_dict[e] > 0 /\ flow_dict[e] < G[e].capacity

====
